---------------------------- MODULE Spec2Model ----------------------------
(***************************************************************************)
(* Year-by-year household projection engine of SwissFamilyPlan             *)
(* (src/services/financeEngine.ts): calculateProjections, runAllScenarios  *)
(* and calculateViableEarlyRetirement.                                     *)
(*                                                                         *)
(* Numbers.  The engine computes on IEEE doubles.  The model computes on   *)
(* integers in fixed point: money in whole CHF, percentages in tenths of a *)
(* percent ("pm", so 2.0% is 20), the cumulative inflation factor in       *)
(* 1/10000.  Every product with a rate is rounded down to the unit         *)
(* (MulDiv), in the order in which the code multiplies.                    *)
(***************************************************************************)
EXTENDS Integers, Sequences, FiniteSets, TLC

VARIABLES
    data,        \* the caller's FinancialData profile
    arg,         \* the profile passed to the call of calculateProjections in progress
    scenario,    \* the ScenarioType passed to that call
    st,          \* its locals that live across loop iterations
    points,      \* its points: ProjectionPoint[]
    all,         \* the ScenarioResults returned so far, in call order
    other,       \* the caller's second profile (runs compared on two profiles)
    testAge,     \* calculateViableEarlyRetirement: the loop variable
    early,       \* its return value: {} is null, {a} is the age a
    pc,          \* "loop" inside calculateProjections, "done" once the caller returned
    session,     \* the engine calls the application has made: the one in progress
                 \* and the results of the earlier ones
    ui           \* the state of the cost-estimate button of src/App.tsx

vars == <<data, arg, scenario, st, points, all, other, testAge, early, pc,
          session, ui>>

(***************************************************************************)
(* Arithmetic                                                              *)
(***************************************************************************)
Max(a, b) == IF a >= b THEN a ELSE b
Min(a, b) == IF a <= b THEN a ELSE b

\* floor(x * n / d) for d > 0, without forming the product x * n
MulDiv(x, n, d) == (x \div d) * n + ((x % d) * n) \div d

\* x * (1 + pm/1000): a yearly compounding by a rate given in tenths of a percent
Grow(x, pm) == MulDiv(x, 1000 + pm, 1000)

(***************************************************************************)
(* Program constants (financeEngine.ts lines 11-21)                        *)
(***************************************************************************)
DEFAULT_MAX_AGE == 90
RETIREMENT_SAFETY_BUFFER == 100000
AHV_COUPLE_MAX_ANNUAL_2025 == 44100
\* 0.058, in 1/1000
LPP_CONVERSION_RATE == 58
\* 0.02, in 1/100
LPP_INTEREST_RATE == 2
\* the scale of the cumulative inflation factor: 10000 stands for 1.0
FactorOne == 10000

\* line 235: the candidate ages of calculateViableEarlyRetirement
FirstTestAge == 45
LastTestAge == 65

\* line 91: what new Date().getFullYear() returns to the first call
FirstYear == 2025

MoveNote == "Mudanca: Pis mes gran"
DepletedNote == "Fons Esgotats"

Scenarios == <<"pessimistic", "neutral", "optimistic">>
CareerStages == {"junior", "mid", "senior", "executive"}

\* taxFactorByCanton / getTaxFactor, in 1/1000
getTaxFactor(canton) ==
    CASE canton \in {"Zürich", "Zurich"} -> 780
      [] canton = "Zug" -> 820
      [] canton = "Geneva" -> 700
      [] canton = "Vaud" -> 730
      [] OTHER -> 750

\* a variant of Modifiers whose neutral scenario carries half of the pessimistic
\* inflation delta
ModifiersNeutralDrift(scen) ==
    CASE scen = "pessimistic" ->
            [salaryGrowthModPct |-> -5, returnModPct |-> -20,
             inflationModPct |-> 10, expenseMultiplier |-> 1050]
      [] scen = "optimistic" ->
            [salaryGrowthModPct |-> 5, returnModPct |-> 15,
             inflationModPct |-> -5, expenseMultiplier |-> 950]
      [] OTHER ->
            [salaryGrowthModPct |-> 0, returnModPct |-> 0,
             inflationModPct |-> 5, expenseMultiplier |-> 1000]

\* the scenario modifiers: percentages in tenths of a percent, the expense
\* multiplier in 1/1000
Modifiers(scen) ==
    CASE scen = "pessimistic" ->
            [salaryGrowthModPct |-> -5, returnModPct |-> -20,
             inflationModPct |-> 10, expenseMultiplier |-> 1050]
      [] scen = "optimistic" ->
            [salaryGrowthModPct |-> 5, returnModPct |-> 15,
             inflationModPct |-> -5, expenseMultiplier |-> 950]
      [] OTHER ->
            [salaryGrowthModPct |-> 0, returnModPct |-> 0,
             inflationModPct |-> 0, expenseMultiplier |-> 1000]

\* existing children start at 2, 4, 6, ...; future ones at -(firstOffset + j*spacing)
computeChildrenSchedule(d) ==
    [i \in 1..d.currentChildren |-> 2 + (i - 1) * 2]
    \o [j \in 1..d.futureChildren |->
            -(d.firstChildBirthYearOffset + (j - 1) * d.childSpacingYears)]

\* a variant of getSalaryGrowthRate that gives executives the senior boost
\* between 35 and 44
getSalaryGrowthRateSeniorExec(age, stage, baseInflation) ==
    LET careerBoost ==
            IF age < 35 THEN
                (IF stage = "junior" THEN 35
                 ELSE IF stage = "mid" THEN 25 ELSE 15)
            ELSE IF age < 45 THEN
                (IF stage = "junior" THEN 25
                 ELSE IF stage = "mid" THEN 20 ELSE 15)
            ELSE IF age < 55 THEN 10
            ELSE 0
    IN  baseInflation + careerBoost

\* baseline plus career boost, in tenths of a percent
getSalaryGrowthRate(age, stage, baseInflation) ==
    LET careerBoost ==
            IF age < 35 THEN
                (IF stage = "junior" THEN 35
                 ELSE IF stage = "mid" THEN 25 ELSE 15)
            ELSE IF age < 45 THEN
                (IF stage = "junior" THEN 25
                 ELSE IF stage = "mid" THEN 20
                 ELSE IF stage = "senior" THEN 15 ELSE 20)
            ELSE IF age < 55 THEN 10
            ELSE 0
    IN  baseInflation + careerBoost

\* Math.pow(1 + baseInflationPct / 100, yearIndex), in 1/10000, by repeated
\* squaring: a function of the rate and the year index alone, as in the code
RECURSIVE InflationFactor(_, _)
InflationFactor(basePct, yearIndex) ==
    IF yearIndex = 0 THEN FactorOne
    ELSE LET half == InflationFactor(basePct, yearIndex \div 2)
             square == MulDiv(half, half, FactorOne)
         IN  IF yearIndex % 2 = 1 THEN Grow(square, basePct) ELSE square

baseInflationPct(d, mods) == d.expectedSalaryIncrease + mods.inflationModPct

\* a variant of effectiveInvestmentReturnPct with the operands of the sum swapped
\* in sign
effectiveReturnSignSlip(d, mods) ==
    Max(0, mods.returnModPct - d.investmentReturn)

effectiveInvestmentReturnPct(d, mods) ==
    Max(0, d.investmentReturn + mods.returnModPct)


(***************************************************************************)
(* The children pass of one iteration (lines 106-117)                      *)
(***************************************************************************)
\* what one child slot of age childAge adds to annualChildrenExpenses
\* a variant of ChildCost that keeps paying university support after age 24
ChildCostNoUpperAge(d, childAge) ==
    IF childAge < 0 THEN 0
    ELSE IF childAge < 5 THEN d.monthlyDaycareCost * 12
    ELSE IF childAge >= 5 /\ childAge < 19 THEN d.monthlySchoolActivityCost * 12
    ELSE d.universitySupport

ChildCost(d, childAge) ==
    IF childAge < 0 THEN 0
    ELSE IF childAge < 5 THEN d.monthlyDaycareCost * 12
    ELSE IF childAge >= 5 /\ childAge < 19 THEN d.monthlySchoolActivityCost * 12
    ELSE IF childAge >= 19 /\ childAge < 25 THEN d.universitySupport
    ELSE 0

RECURSIVE SumChildCost(_, _)
SumChildCost(d, ages) ==
    IF ages = <<>> THEN 0
    ELSE ChildCost(d, Head(ages)) + SumChildCost(d, Tail(ages))

\* activeChildrenCount: the slots with 0 <= age < 25
ActiveChildren(ages) ==
    Cardinality({i \in DOMAIN ages : ages[i] >= 0 /\ ages[i] < 25})

\* a variant of AgeChildren in which only the born children age
AgeChildrenBornOnly(ages) ==
    [i \in DOMAIN ages |-> IF ages[i] < 0 THEN ages[i] ELSE ages[i] + 1]

\* every slot, born or not, is one year older after the pass
AgeChildren(ages) == [i \in DOMAIN ages |-> ages[i] + 1]

(***************************************************************************)
(* Housing (lines 104, 119-123).  currentRooms is held in half rooms       *)
(* (3.5 rooms is 7), so 2 + n > rooms + 0.5 reads 2*(2 + n) > rooms2 + 1.  *)
(***************************************************************************)
NeedsBiggerHome(d, activeChildrenCount) ==
    2 * (2 + activeChildrenCount) > d.currentRooms + 1

\* a variant of MovesHouse that does not look at the latch
MovesHouseNoLatch(d, hasMovedHouse, activeChildrenCount) ==
    NeedsBiggerHome(d, activeChildrenCount)

MovesHouse(d, hasMovedHouse, activeChildrenCount) ==
    ~hasMovedHouse /\ NeedsBiggerHome(d, activeChildrenCount)

\* currentRent after the yearly increase of line 104
InflateRent(d, mods, currentRent) ==
    Grow(currentRent, d.housingCostIncrease + mods.inflationModPct)

\* a variant of MarketJump: the jump of 25% that the comments of the older engine
\* copy discuss
MarketJumpQuarter(currentRent) == MulDiv(currentRent, 125, 100)

\* currentRent *= 1.30
MarketJump(currentRent) == MulDiv(currentRent, 130, 100)

(***************************************************************************)
(* The wealth ledger                                                       *)
(***************************************************************************)
\* a variant of AbsorbDeficit without the floor on the invested bucket
AbsorbDeficitNoFloor(cashBuffer, investedWealth, deficit) ==
    IF cashBuffer >= deficit
    THEN [cash |-> cashBuffer - deficit, invested |-> investedWealth]
    ELSE [cash |-> 0, invested |-> investedWealth - (deficit - cashBuffer)]

\* a variant of AbsorbDeficit that sells invested assets before it touches the
\* cash
AbsorbDeficitInvestedFirst(cashBuffer, investedWealth, deficit) ==
    IF investedWealth >= deficit
    THEN [cash |-> cashBuffer, invested |-> investedWealth - deficit]
    ELSE [cash |-> Max(0, cashBuffer - (deficit - investedWealth)),
          invested |-> 0]

\* lines 155-161 and 185-191: cash first, then invested, floored at zero
AbsorbDeficit(cashBuffer, investedWealth, deficit) ==
    IF cashBuffer >= deficit
    THEN [cash |-> cashBuffer - deficit, invested |-> investedWealth]
    ELSE [cash |-> 0,
          invested |-> Max(0, investedWealth - (deficit - cashBuffer))]

\* a variant of WorkingLedger with a sign slip in the invested share of a
\* surplus
WorkingLedgerSignSlip(cashBuffer, investedWealth, annualSavingsCapacity, effPct) ==
    LET after ==
            IF annualSavingsCapacity > 0
            THEN [cash |-> cashBuffer + MulDiv(annualSavingsCapacity, 3, 10),
                  invested |-> Max(0, investedWealth
                                        - MulDiv(annualSavingsCapacity, 7, 10))]
            ELSE AbsorbDeficit(cashBuffer, investedWealth, -annualSavingsCapacity)
    IN  [cash |-> after.cash, invested |-> Grow(after.invested, effPct)]

\* lines 151-163: the working year's allocation or drawdown, then the return
WorkingLedger(cashBuffer, investedWealth, annualSavingsCapacity, effPct) ==
    LET after ==
            IF annualSavingsCapacity > 0
            THEN [cash |-> cashBuffer + MulDiv(annualSavingsCapacity, 3, 10),
                  invested |-> investedWealth + MulDiv(annualSavingsCapacity, 7, 10)]
            ELSE AbsorbDeficit(cashBuffer, investedWealth, -annualSavingsCapacity)
    IN  [cash |-> after.cash, invested |-> Grow(after.invested, effPct)]

\* lines 183-193: the retirement year's surplus goes to cash alone
RetiredLedger(cashBuffer, investedWealth, annualSavingsCapacity, effPct) ==
    LET after ==
            IF annualSavingsCapacity >= 0
            THEN [cash |-> cashBuffer + annualSavingsCapacity,
                  invested |-> investedWealth]
            ELSE AbsorbDeficit(cashBuffer, investedWealth, -annualSavingsCapacity)
    IN  [cash |-> after.cash, invested |-> Grow(after.invested, effPct)]

\* line 146: the planned contribution, or what the net income can fund
\* a variant of ActualP3 that credits the plan whatever the income
ActualP3AlwaysPlanned(totalIncomeNet, plannedP3) == plannedP3

ActualP3(totalIncomeNet, plannedP3) ==
    IF totalIncomeNet >= plannedP3 THEN plannedP3 ELSE Max(0, totalIncomeNet)

(***************************************************************************)
(* The pension model (lines 168-182)                                       *)
(***************************************************************************)
\* variants that recompute the snapshot in every retired year
LppSnapshotEveryYear(taken, old, pillar2Wealth) ==
    MulDiv(pillar2Wealth, LPP_CONVERSION_RATE, 1000)

DrawdownSnapshotEveryYear(taken, old, pillar3Wealth, retirementAge) ==
    pillar3Wealth \div Max(1, DEFAULT_MAX_AGE - retirementAge)

\* a variant of AhvPension that is not indexed
AhvPensionNotIndexed(inflationFactor) == AHV_COUPLE_MAX_ANNUAL_2025

\* lines 168-173: the snapshot is computed when it has not been taken yet
LppSnapshot(taken, old, pillar2Wealth) ==
    IF ~taken THEN MulDiv(pillar2Wealth, LPP_CONVERSION_RATE, 1000) ELSE old

\* a variant of DrawdownSnapshot whose divisor is at least 2
DrawdownSnapshotFloorTwo(taken, old, pillar3Wealth, retirementAge) ==
    IF ~taken
    THEN pillar3Wealth \div Max(2, DEFAULT_MAX_AGE - retirementAge)
    ELSE old

DrawdownSnapshot(taken, old, pillar3Wealth, retirementAge) ==
    IF ~taken
    THEN pillar3Wealth \div Max(1, DEFAULT_MAX_AGE - retirementAge)
    ELSE old

AhvPension(inflationFactor) ==
    MulDiv(AHV_COUPLE_MAX_ANNUAL_2025, inflationFactor, FactorOne)

AhvSnapshot(taken, old, inflationFactor) ==
    IF ~taken THEN AhvPension(inflationFactor) ELSE old

\* a variant of RetiredPillar2 that keeps the capital
RetiredPillar2Kept(pillar2Wealth) == pillar2Wealth

\* line 180
RetiredPillar2(pillar2Wealth) == 0

\* lines 181-182: what is left after the payout earns 30% of the return
\* a variant of RetiredPillar3 that leaves the amount paid in the balance
RetiredPillar3NotReduced(pillar3Wealth, pension3a, effPct) ==
    MulDiv(pillar3Wealth, 10000 + 3 * effPct, 10000)

RetiredPillar3(pillar3Wealth, pension3a, effPct) ==
    MulDiv(Max(0, pillar3Wealth - pension3a), 10000 + 3 * effPct, 10000)

(***************************************************************************)
(* calculateProjections (lines 61-222)                                     *)
(***************************************************************************)
\* the locals before the loop (lines 69-96); age is the loop variable, year is
\* what new Date().getFullYear() returns to this call
InitState(d, year) ==
    [age |-> d.currentAge,
     startYear |-> year,
     grossSalary1 |-> d.annualGrossSalary1,
     grossSalary2 |-> d.annualGrossSalary2,
     grossBonus |-> d.annualBonus,
     pillar2Wealth |-> d.pillar2Balance1 + d.pillar2Balance2,
     pillar3Wealth |-> d.pillar3Balance1 + d.pillar3Balance2,
     cashBuffer |-> MulDiv(d.currentSavings, 3, 10),
     investedWealth |-> MulDiv(d.currentSavings, 7, 10),
     ahvAnnualPensionSnapshot |-> 0,
     lppAnnualPensionSnapshot |-> 0,
     pillar3AnnualDrawdownSnapshot |-> 0,
     retirementSnapshotTaken |-> FALSE,
     childrenAges |-> computeChildrenSchedule(d),
     maxWealth |-> 0,
     savingsDepletedAge |-> {},
     currentRent |-> d.currentHousingCost,
     hasMovedHouse |-> FALSE]

\* a variant of WorkingYear in which pillar 3a capital pays the part of a
\* deficit that cash and invested assets cannot
WorkingYearPensionPays(d, mods, s, totalExpenses) ==
    LET base == baseInflationPct(d, mods)
        eff == effectiveInvestmentReturnPct(d, mods)
        taxFactor == getTaxFactor(d.canton)
        growthRate1 == getSalaryGrowthRate(s.age, d.careerStage1, base)
        growthRate2 == getSalaryGrowthRate(s.age, d.careerStage2, base)
        salaryNet1 == MulDiv(s.grossSalary1, taxFactor, 1000)
        salaryNet2 == MulDiv(s.grossSalary2, taxFactor, 1000)
        bonusNet == MulDiv(s.grossBonus, 65, 100)
        totalGrossIncome == s.grossSalary1 + s.grossSalary2 + s.grossBonus
        totalIncomeNet == salaryNet1 + salaryNet2 + bonusNet
        plannedP3 == d.pillar3AnnualContribution1 + d.pillar3AnnualContribution2
        actualP3 == ActualP3(totalIncomeNet, plannedP3)
        annualSavingsCapacity == totalIncomeNet - actualP3 - totalExpenses
        lppContribution == MulDiv(s.grossSalary1 + s.grossSalary2, 12, 100)
        ledger == WorkingLedger(s.cashBuffer, s.investedWealth,
                                annualSavingsCapacity, eff)
    IN  [totalGrossIncome |-> totalGrossIncome,
         totalIncomeNet |-> totalIncomeNet,
         pensionAHV |-> 0, pensionLPP |-> 0, pension3a |-> 0,
         annualSavingsCapacity |-> annualSavingsCapacity,
         pillar2Wealth |->
            MulDiv(s.pillar2Wealth, 100 + LPP_INTEREST_RATE, 100) + lppContribution,
         pillar3Wealth |->
            Max(0, Grow(s.pillar3Wealth, eff) + actualP3
                   - Max(0, -annualSavingsCapacity
                            - s.cashBuffer - s.investedWealth)),
         cashBuffer |-> ledger.cash,
         investedWealth |-> ledger.invested,
         grossSalary1 |->
            Grow(s.grossSalary1, growthRate1 + mods.salaryGrowthModPct),
         grossSalary2 |->
            Grow(s.grossSalary2, growthRate2 + mods.salaryGrowthModPct),
         grossBonus |-> Grow(s.grossBonus, base),
         ahvAnnualPensionSnapshot |-> s.ahvAnnualPensionSnapshot,
         lppAnnualPensionSnapshot |-> s.lppAnnualPensionSnapshot,
         pillar3AnnualDrawdownSnapshot |-> s.pillar3AnnualDrawdownSnapshot,
         retirementSnapshotTaken |-> s.retirementSnapshotTaken]

\* the working branch of one iteration (lines 138-166)
WorkingYear(d, mods, s, totalExpenses) ==
    LET base == baseInflationPct(d, mods)
        eff == effectiveInvestmentReturnPct(d, mods)
        taxFactor == getTaxFactor(d.canton)
        growthRate1 == getSalaryGrowthRate(s.age, d.careerStage1, base)
        growthRate2 == getSalaryGrowthRate(s.age, d.careerStage2, base)
        salaryNet1 == MulDiv(s.grossSalary1, taxFactor, 1000)
        salaryNet2 == MulDiv(s.grossSalary2, taxFactor, 1000)
        bonusNet == MulDiv(s.grossBonus, 65, 100)
        totalGrossIncome == s.grossSalary1 + s.grossSalary2 + s.grossBonus
        totalIncomeNet == salaryNet1 + salaryNet2 + bonusNet
        plannedP3 == d.pillar3AnnualContribution1 + d.pillar3AnnualContribution2
        actualP3 == ActualP3(totalIncomeNet, plannedP3)
        annualSavingsCapacity == totalIncomeNet - actualP3 - totalExpenses
        lppContribution == MulDiv(s.grossSalary1 + s.grossSalary2, 12, 100)
        ledger == WorkingLedger(s.cashBuffer, s.investedWealth,
                                annualSavingsCapacity, eff)
    IN  [totalGrossIncome |-> totalGrossIncome,
         totalIncomeNet |-> totalIncomeNet,
         pensionAHV |-> 0, pensionLPP |-> 0, pension3a |-> 0,
         annualSavingsCapacity |-> annualSavingsCapacity,
         pillar2Wealth |->
            MulDiv(s.pillar2Wealth, 100 + LPP_INTEREST_RATE, 100) + lppContribution,
         pillar3Wealth |-> Grow(s.pillar3Wealth, eff) + actualP3,
         cashBuffer |-> ledger.cash,
         investedWealth |-> ledger.invested,
         grossSalary1 |->
            Grow(s.grossSalary1, growthRate1 + mods.salaryGrowthModPct),
         grossSalary2 |->
            Grow(s.grossSalary2, growthRate2 + mods.salaryGrowthModPct),
         grossBonus |-> Grow(s.grossBonus, base),
         ahvAnnualPensionSnapshot |-> s.ahvAnnualPensionSnapshot,
         lppAnnualPensionSnapshot |-> s.lppAnnualPensionSnapshot,
         pillar3AnnualDrawdownSnapshot |-> s.pillar3AnnualDrawdownSnapshot,
         retirementSnapshotTaken |-> s.retirementSnapshotTaken]

\* the retirement branch of one iteration (lines 168-193)
RetiredYear(d, mods, s, totalExpenses, inflationFactor) ==
    LET eff == effectiveInvestmentReturnPct(d, mods)
        taken == s.retirementSnapshotTaken
        ahvSnap == AhvSnapshot(taken, s.ahvAnnualPensionSnapshot, inflationFactor)
        lppSnap == LppSnapshot(taken, s.lppAnnualPensionSnapshot, s.pillar2Wealth)
        ddSnap == DrawdownSnapshot(taken, s.pillar3AnnualDrawdownSnapshot,
                                   s.pillar3Wealth, d.retirementAge)
        pensionAHV == AhvPension(inflationFactor)
        pensionLPP == lppSnap
        pension3a == Min(s.pillar3Wealth, ddSnap)
        totalGrossIncome == pensionAHV + pensionLPP + pension3a
        totalIncomeNet == MulDiv(totalGrossIncome, 85, 100)
        annualSavingsCapacity == totalIncomeNet - totalExpenses
        ledger == RetiredLedger(s.cashBuffer, s.investedWealth,
                                annualSavingsCapacity, eff)
    IN  [totalGrossIncome |-> totalGrossIncome,
         totalIncomeNet |-> totalIncomeNet,
         pensionAHV |-> pensionAHV, pensionLPP |-> pensionLPP,
         pension3a |-> pension3a,
         annualSavingsCapacity |-> annualSavingsCapacity,
         pillar2Wealth |-> RetiredPillar2(s.pillar2Wealth),
         pillar3Wealth |-> RetiredPillar3(s.pillar3Wealth, pension3a, eff),
         cashBuffer |-> ledger.cash,
         investedWealth |-> ledger.invested,
         grossSalary1 |-> s.grossSalary1,
         grossSalary2 |-> s.grossSalary2,
         grossBonus |-> s.grossBonus,
         ahvAnnualPensionSnapshot |-> ahvSnap,
         lppAnnualPensionSnapshot |-> lppSnap,
         pillar3AnnualDrawdownSnapshot |-> ddSnap,
         retirementSnapshotTaken |-> TRUE]

\* line 198: the depletion test
\* a variant of IsDepleted that also fires at zero
IsDepletedAtZero(totalWealth) == totalWealth <= 0

IsDepleted(totalWealth) == totalWealth < 0

\* one iteration of the loop (lines 98-215): the locals after it, and the
\* ProjectionPoint it pushes
Iterate(d, scen, s) ==
    LET mods == Modifiers(scen)
        yearIndex == s.age - d.currentAge
        isRetired == s.age >= d.retirementAge
        inflationFactor == InflationFactor(baseInflationPct(d, mods), yearIndex)
        rentInflated == InflateRent(d, mods, s.currentRent)
        annualChildrenExpenses ==
            MulDiv(SumChildCost(d, s.childrenAges), mods.expenseMultiplier, 1000)
        activeChildrenCount == ActiveChildren(s.childrenAges)
        moves == MovesHouse(d, s.hasMovedHouse, activeChildrenCount)
        currentRent == IF moves THEN MarketJump(rentInflated) ELSE rentInflated
        livingAnnual ==
            MulDiv(MulDiv(d.monthlyLivingCost * 12, inflationFactor, FactorOne),
                   mods.expenseMultiplier, 1000)
        travelAnnual ==
            MulDiv(MulDiv(d.yearlyTravelBudget, inflationFactor, FactorOne),
                   mods.expenseMultiplier, 1000)
        housingAnnual == currentRent * 12
        totalExpenses ==
            housingAnnual + livingAnnual + annualChildrenExpenses + travelAnnual
        y == IF isRetired
             THEN RetiredYear(d, mods, s, totalExpenses, inflationFactor)
             ELSE WorkingYear(d, mods, s, totalExpenses)
        totalWealth ==
            y.cashBuffer + y.investedWealth + y.pillar2Wealth + y.pillar3Wealth
        depleted == IsDepleted(totalWealth) /\ s.savingsDepletedAge = {}
        taxFactor == getTaxFactor(d.canton)
        notes == (IF moves THEN <<MoveNote>> ELSE <<>>)
                 \o (IF depleted THEN <<DepletedNote>> ELSE <<>>)
    IN  [st |->
            [age |-> s.age + 1,
             startYear |-> s.startYear,
             grossSalary1 |-> y.grossSalary1,
             grossSalary2 |-> y.grossSalary2,
             grossBonus |-> y.grossBonus,
             pillar2Wealth |-> y.pillar2Wealth,
             pillar3Wealth |-> y.pillar3Wealth,
             cashBuffer |-> y.cashBuffer,
             investedWealth |-> y.investedWealth,
             ahvAnnualPensionSnapshot |-> y.ahvAnnualPensionSnapshot,
             lppAnnualPensionSnapshot |-> y.lppAnnualPensionSnapshot,
             pillar3AnnualDrawdownSnapshot |-> y.pillar3AnnualDrawdownSnapshot,
             retirementSnapshotTaken |-> y.retirementSnapshotTaken,
             childrenAges |-> AgeChildren(s.childrenAges),
             maxWealth |-> Max(s.maxWealth, totalWealth),
             savingsDepletedAge |->
                IF depleted THEN {s.age} ELSE s.savingsDepletedAge,
             currentRent |-> currentRent,
             hasMovedHouse |-> s.hasMovedHouse \/ moves],
         point |->
            [age |-> s.age,
             year |-> s.startYear + yearIndex,
             yearIndex |-> yearIndex,
             totalGrossIncome |-> y.totalGrossIncome,
             totalIncome |-> y.totalIncomeNet,
             salary1 |-> IF isRetired THEN 0
                         ELSE MulDiv(y.grossSalary1, taxFactor, 1000),
             salary2 |-> IF isRetired THEN 0
                         ELSE MulDiv(y.grossSalary2, taxFactor, 1000),
             bonus |-> IF isRetired THEN 0 ELSE MulDiv(y.grossBonus, 65, 100),
             pensionAHV |-> y.pensionAHV,
             pensionLPP |-> y.pensionLPP,
             pension3a |-> y.pension3a,
             pension |-> y.pensionAHV + y.pensionLPP + y.pension3a,
             activeChildren |-> activeChildrenCount,
             housingExpenses |-> housingAnnual,
             livingExpenses |-> livingAnnual,
             childrenExpenses |-> annualChildrenExpenses,
             travelExpenses |-> travelAnnual,
             totalExpenses |-> totalExpenses,
             yearlySavings |-> y.annualSavingsCapacity,
             cashSavings |-> y.cashBuffer,
             investedAssets |-> y.investedWealth,
             pillar2Wealth |-> y.pillar2Wealth,
             pillar3Wealth |-> y.pillar3Wealth,
             pensionWealth |-> y.pillar2Wealth + y.pillar3Wealth,
             totalWealth |-> totalWealth,
             isDeficit |-> y.annualSavingsCapacity < 0,
             notes |-> notes]]

\* the returned ScenarioResult (lines 217-221); finalWealth is the last point's
\* totalWealth, or 0
MakeResult(scen, s, pts) ==
    LET finalWealth == IF pts = <<>> THEN 0 ELSE pts[Len(pts)].totalWealth
    IN
    [type |-> scen,
     data |-> pts,
     finalWealth |-> finalWealth,
     maxWealth |-> s.maxWealth,
     isViable |-> finalWealth >= 0,
     savingsDepletedAge |-> s.savingsDepletedAge]

(***************************************************************************)
(* Profiles.  BaseProfile is initialData of src/App.tsx; the sets below    *)
(* vary the fields the engine branches on.                                 *)
(***************************************************************************)
MaxCurrentChildren == 1
MaxFutureChildren == 1

BaseProfile ==
    [currentAge |-> 30, retirementAge |-> 65,
     currentChildren |-> 0, futureChildren |-> 2,
     firstChildBirthYearOffset |-> 1, childSpacingYears |-> 2,
     annualGrossSalary1 |-> 110000, annualGrossSalary2 |-> 90000,
     careerStage1 |-> "mid", careerStage2 |-> "mid",
     annualBonus |-> 0,
     expectedSalaryIncrease |-> 20,
     currentSavings |-> 150000,
     investmentReturn |-> 45,
     pillar2Balance1 |-> 50000, pillar2Balance2 |-> 20000,
     pillar3Balance1 |-> 14000, pillar3Balance2 |-> 0,
     pillar3AnnualContribution1 |-> 7056, pillar3AnnualContribution2 |-> 3000,
     currentHousingCost |-> 1800,
     currentRooms |-> 7,
     housingCostIncrease |-> 20,
     monthlyLivingCost |-> 6000,
     monthlyDaycareCost |-> 2500,
     monthlySchoolActivityCost |-> 400,
     yearlyTravelBudget |-> 6000,
     universitySupport |-> 25000,
     canton |-> "Zurich"]

\* <<currentAge, retirementAge>>: a full career, a late one, retired from the
\* start, and a retirement age beyond the horizon
AgePairs == {<<30, 65>>, <<62, 65>>, <<88, 65>>, <<86, 95>>}

CareerProfiles ==
    {[BaseProfile EXCEPT
        !.currentAge = ap[1], !.retirementAge = ap[2],
        !.currentChildren = cc, !.futureChildren = fc,
        !.firstChildBirthYearOffset = off,
        !.currentRooms = rooms,
        !.monthlyLivingCost = living,
        !.expectedSalaryIncrease = esi,
        !.housingCostIncrease = hci] :
        ap \in AgePairs,
        cc \in 0..MaxCurrentChildren, fc \in 0..MaxFutureChildren,
        off \in {1, 25}, rooms \in {4, 5},
        living \in {6000, 20000}, esi \in {0, 20}, hci \in {0, 20}}

\* households that retire one year before the horizon: the pillar-3 capital is
\* paid out over max(1, 90 - 89) = 1 year
LateProfiles ==
    {[BaseProfile EXCEPT
        !.currentAge = 88, !.retirementAge = 89,
        !.futureChildren = 0,
        !.currentSavings = savings,
        !.monthlyLivingCost = living] :
        savings \in {0, 150000}, living \in {6000, 20000}}

\* young households that plan children, by the offset of the first birth
BirthProfiles ==
    {[BaseProfile EXCEPT
        !.futureChildren = fc,
        !.firstChildBirthYearOffset = off] :
        fc \in 1..MaxFutureChildren, off \in {0, 1, 2}}

\* young households without savings, with a child in daycare and one planned
LeanProfiles ==
    {[BaseProfile EXCEPT
        !.currentChildren = 1, !.futureChildren = fc,
        !.currentSavings = 0,
        !.currentRooms = rooms,
        !.annualGrossSalary2 = salary2] :
        fc \in 1..MaxFutureChildren, rooms \in {4, 7},
        salary2 \in {0, 90000}}

\* households near retirement whose net income is below the planned pillar-3a
\* contribution of 10056 a year
ThinProfiles ==
    {[BaseProfile EXCEPT
        !.currentAge = 60, !.retirementAge = 65,
        !.futureChildren = 0,
        !.annualGrossSalary1 = salary1,
        !.annualGrossSalary2 = 0,
        !.currentSavings = savings] :
        salary1 \in {0, 8000}, savings \in {0, 150000}}

\* households that stop working two years before the horizon, in its last year
\* or after it, with and without a return on investments
HorizonProfiles ==
    {[BaseProfile EXCEPT
        !.currentAge = 86, !.retirementAge = retirementAge,
        !.futureChildren = 0,
        !.investmentReturn = investmentReturn] :
        retirementAge \in {88, 90, 91}, investmentReturn \in {0, 45}}

\* households of every pair of career stages that work three more years, across
\* the ages 35, 45 and 55
StageProfiles ==
    {[BaseProfile EXCEPT
        !.currentAge = age, !.retirementAge = age + 3,
        !.futureChildren = 0,
        !.careerStage1 = stage1, !.careerStage2 = stage2] :
        age \in {33, 43, 53}, stage1 \in CareerStages, stage2 \in CareerStages}

Profiles ==
    CareerProfiles \cup LateProfiles \cup BirthProfiles \cup LeanProfiles
        \cup ThinProfiles \cup HorizonProfiles \cup StageProfiles

(***************************************************************************)
(* One call of calculateProjections, an iteration at a time                *)
(***************************************************************************)
\* JSON.parse(JSON.stringify(d)): a copy with the same fields
Clone(d) == d

\* a variant of LoopContinues that leaves the loop once a retired household has
\* neither cash nor invested assets
LoopStopsWhenBroke(s) ==
    /\ s.age <= DEFAULT_MAX_AGE
    /\ ~(s.retirementSnapshotTaken /\ s.cashBuffer + s.investedWealth = 0)

\* line 98: the loop condition
LoopContinues(s) == s.age <= DEFAULT_MAX_AGE

\* the calendar years a call may fall in
Years == {FirstYear, FirstYear + 1}

\* a call of calculateProjections(a, scen) in the calendar year year enters its
\* loop; the calls that one synchronous caller makes fall in one calendar year
Enter(a, scen, year) ==
    /\ arg' = a
    /\ scenario' = scen
    /\ st' = InitState(a, year)
    /\ points' = <<>>

\* no engine call has been recorded, and the estimate button is at rest
NoSession == [order |-> <<>>, results |-> <<>>]
UiAtRest == [loadingEstimate |-> FALSE, answer |-> "none"]

\* what the call in progress returns once its loop has ended
Returned == MakeResult(scenario, st, points)

Init ==
    /\ data \in Profiles
    /\ arg = data
    /\ scenario \in {Scenarios[i] : i \in DOMAIN Scenarios}
    /\ st = InitState(arg, FirstYear)
    /\ points = <<>>
    /\ all = <<>>
    /\ other = data
    /\ testAge = FirstTestAge
    /\ early = {}
    /\ pc = "loop"
    /\ session = NoSession
    /\ ui = UiAtRest

\* the loop body, for age <= DEFAULT_MAX_AGE
YearStep ==
    /\ pc = "loop"
    /\ LoopContinues(st)
    /\ LET r == Iterate(arg, scenario, st)
       IN  /\ st' = r.st
           /\ points' = Append(points, r.point)
    /\ UNCHANGED <<data, arg, scenario, all, other, testAge, early, pc,
                   session, ui>>

\* the loop's exit and the return statement
Return ==
    /\ pc = "loop"
    /\ ~LoopContinues(st)
    /\ all' = Append(all, Returned)
    /\ pc' = "done"
    /\ UNCHANGED <<data, arg, scenario, st, points, other, testAge, early,
                   session, ui>>

Next == YearStep \/ Return

Spec == Init /\ [][Next]_vars

\* The call runs to completion: the loop body and the return are synchronous
\* code that nothing preempts, so both are weakly fair.  WF_vars(YearStep) is
\* written out as []<>(~ENABLED <<YearStep>>_vars) \/ []<><<YearStep>>_vars with
\* the value of ENABLED <<YearStep>>_vars, the guard of YearStep (every
\* iteration changes st.age).
YearStepFair ==
    \/ []<>(~(pc = "loop" /\ LoopContinues(st)))
    \/ []<><<YearStep>>_vars

SpecLive == Init /\ [][Next]_vars /\ YearStepFair /\ WF_vars(Return)

(***************************************************************************)
(* runAllScenarios (lines 224-231): pessimistic, neutral, optimistic, each *)
(* on a clone of the caller's profile                                      *)
(***************************************************************************)
ScenarioProfiles ==
    {[BaseProfile EXCEPT
        !.currentAge = ap[1], !.retirementAge = ap[2],
        !.futureChildren = 0,
        !.currentSavings = savings,
        !.currentHousingCost = rent,
        !.monthlyLivingCost = living,
        !.yearlyTravelBudget = travel] :
        ap \in {<<62, 65>>, <<70, 65>>},
        savings \in {0, 150000}, rent \in {1000, 1800},
        living \in {1000, 6000}, travel \in {0, 6000}}

InitAll ==
    /\ data \in ScenarioProfiles
    /\ arg = Clone(data)
    /\ scenario = Scenarios[1]
    /\ st = InitState(arg, FirstYear)
    /\ points = <<>>
    /\ all = <<>>
    /\ other = data
    /\ testAge = FirstTestAge
    /\ early = {}
    /\ pc = "loop"
    /\ session = NoSession
    /\ ui = UiAtRest

\* a call returns into the array literal; the next call starts, or the array is
\* returned
RunAllReturn ==
    /\ pc = "loop"
    /\ ~LoopContinues(st)
    /\ all' = Append(all, Returned)
    /\ IF Len(all') < Len(Scenarios)
       THEN /\ Enter(Clone(data), Scenarios[Len(all') + 1], st.startYear)
            /\ pc' = "loop"
       ELSE /\ pc' = "done"
            /\ UNCHANGED <<arg, scenario, st, points>>
    /\ UNCHANGED <<data, other, testAge, early, session, ui>>

NextAll == YearStep \/ RunAllReturn

SpecScenarios == InitAll /\ [][NextAll]_vars

(***************************************************************************)
(* Two neutral runs on profiles that differ in investmentReturn alone      *)
(***************************************************************************)
\* investmentReturn, in tenths of a percent
ReturnLevels == {-10, 0, 20, 45, 70}

PairProfiles ==
    {[BaseProfile EXCEPT
        !.currentAge = ap[1], !.retirementAge = ap[2],
        !.currentChildren = cc, !.futureChildren = fc,
        !.currentSavings = savings,
        !.monthlyLivingCost = living,
        !.investmentReturn = ret] :
        ap \in {<<50, 60>>, <<62, 65>>, <<70, 65>>},
        cc \in 0..MaxCurrentChildren, fc \in 0..MaxFutureChildren,
        savings \in {0, 150000}, living \in {1000, 6000, 20000},
        ret \in ReturnLevels}

InitPair ==
    /\ data \in PairProfiles
    /\ other \in {[data EXCEPT !.investmentReturn = hi] :
                    hi \in {r \in ReturnLevels : r > data.investmentReturn}}
    /\ arg = data
    /\ scenario = "neutral"
    /\ st = InitState(arg, FirstYear)
    /\ points = <<>>
    /\ all = <<>>
    /\ testAge = FirstTestAge
    /\ early = {}
    /\ pc = "loop"
    /\ session = NoSession
    /\ ui = UiAtRest

\* the run on data returns and the run on other starts, or both have returned
PairReturn ==
    /\ pc = "loop"
    /\ ~LoopContinues(st)
    /\ all' = Append(all, Returned)
    /\ IF Len(all') < 2
       THEN /\ Enter(other, "neutral", st.startYear)
            /\ pc' = "loop"
       ELSE /\ pc' = "done"
            /\ UNCHANGED <<arg, scenario, st, points>>
    /\ UNCHANGED <<data, other, testAge, early, session, ui>>

NextPair == YearStep \/ PairReturn

SpecPair == InitPair /\ [][NextPair]_vars

(***************************************************************************)
(* Two calls of calculateProjections with equal profiles and the same      *)
(* scenario; the second call may fall in the next calendar year            *)
(***************************************************************************)
TwiceProfiles == LateProfiles \cup BirthProfiles \cup LeanProfiles

InitTwice ==
    /\ data \in TwiceProfiles
    /\ other = data
    /\ arg = data
    /\ scenario \in {Scenarios[i] : i \in DOMAIN Scenarios}
    /\ st = InitState(arg, FirstYear)
    /\ points = <<>>
    /\ all = <<>>
    /\ testAge = FirstTestAge
    /\ early = {}
    /\ pc = "loop"
    /\ session = NoSession
    /\ ui = UiAtRest

\* the first call returns and the second one starts, or both have returned
TwiceReturn ==
    /\ pc = "loop"
    /\ ~LoopContinues(st)
    /\ all' = Append(all, Returned)
    /\ IF Len(all') < 2
       THEN /\ \E year \in {y \in Years : y >= st.startYear} :
                    Enter(other, scenario, year)
            /\ pc' = "loop"
       ELSE /\ pc' = "done"
            /\ UNCHANGED <<arg, scenario, st, points>>
    /\ UNCHANGED <<data, other, testAge, early, session, ui>>

NextTwice == YearStep \/ TwiceReturn

SpecTwice == InitTwice /\ [][NextTwice]_vars

(***************************************************************************)
(* calculateViableEarlyRetirement (lines 233-245)                          *)
(***************************************************************************)

\* line 236-237: a clone with retirementAge overridden
TestData(d, age) == [Clone(d) EXCEPT !.retirementAge = age]

\* a variant of CallerAfterOverride without the clone: testData is the caller's
\* object
CallerAfterOverrideInPlace(d, age) == [d EXCEPT !.retirementAge = age]

\* lines 236-237: the override is written to the clone, so the caller's object
\* keeps its fields
CallerAfterOverride(d, age) == d

\* line 240: the viability criterion
IsViableRun(res) == res.finalWealth > RETIREMENT_SAFETY_BUFFER

\* a variant of NoneFound that falls back to the last candidate
NoneFoundLastAge == {LastTestAge}

\* line 244: return null
NoneFound == {}

SearchProfiles ==
    {[BaseProfile EXCEPT
        !.currentAge = age,
        !.futureChildren = 0,
        !.currentSavings = savings,
        !.monthlyLivingCost = living] :
        age \in {50, 62},
        savings \in {150000, 3000000},
        living \in {6000, 9000}}

InitSearch ==
    /\ other \in SearchProfiles
    /\ testAge = FirstTestAge
    /\ data = CallerAfterOverride(other, testAge)
    /\ arg = TestData(other, testAge)
    /\ scenario = "neutral"
    /\ st = InitState(arg, FirstYear)
    /\ points = <<>>
    /\ all = <<>>
    /\ early = {}
    /\ pc = "loop"
    /\ session = NoSession
    /\ ui = UiAtRest

\* the run of the candidate returns: the search returns the candidate, goes on
\* with the next one, or leaves the loop and returns null
SearchReturn ==
    /\ pc = "loop"
    /\ ~LoopContinues(st)
    /\ all' = Append(all, Returned)
    /\ IF IsViableRun(Returned)
       THEN /\ early' = {testAge}
            /\ pc' = "done"
            /\ UNCHANGED <<data, testAge, arg, scenario, st, points>>
       ELSE /\ testAge' = testAge + 1
            /\ IF testAge' <= LastTestAge
               THEN /\ Enter(TestData(data, testAge'), "neutral", st.startYear)
                    /\ data' = CallerAfterOverride(data, testAge')
                    /\ pc' = "loop"
                    /\ UNCHANGED early
               ELSE /\ early' = NoneFound
                    /\ pc' = "done"
                    /\ UNCHANGED <<data, arg, scenario, st, points>>
    /\ UNCHANGED <<other, session, ui>>

NextSearch == YearStep \/ SearchReturn

SpecSearch == InitSearch /\ [][NextSearch]_vars

(***************************************************************************)
(* A session of the application (src/App.tsx lines 119-130 call            *)
(* runAllScenarios and calculateViableEarlyRetirement on one profile       *)
(* object): three engine calls on the caller's profile, the first and the  *)
(* last the same operation, so that the last can be compared with the      *)
(* first, which ran alone.                                                 *)
(***************************************************************************)
Operations ==
    {"calculateProjections", "runAllScenarios", "calculateViableEarlyRetirement"}

Orders == {<<a, b, a>> : a \in Operations, b \in Operations}

SessionProfiles ==
    {[BaseProfile EXCEPT
        !.currentAge = 62,
        !.futureChildren = 0,
        !.currentSavings = savings,
        !.monthlyLivingCost = living] :
        savings \in {150000, 3000000},
        living \in {6000, 9000}}

\* the operation in progress, or the one that returned last
CurrentOp == session.order[Len(session.results) + 1]

\* what the operation that returned last gave back
LastCall == [op |-> CurrentOp, all |-> all, early |-> early]

InitSession ==
    /\ data \in SessionProfiles
    /\ other = data
    /\ arg = data
    /\ scenario = "neutral"
    /\ st = InitState(arg, FirstYear)
    /\ points = <<>>
    /\ all = <<>>
    /\ testAge = FirstTestAge
    /\ early = {}
    /\ pc = "idle"
    /\ session \in {[order |-> o, results |-> <<>>] : o \in Orders}
    /\ ui = UiAtRest

\* the application makes its next engine call on its profile object
Call ==
    /\ pc \in {"idle", "done"}
    /\ LET returned == IF pc = "idle" THEN session.results
                       ELSE Append(session.results, LastCall)
       IN  /\ Len(returned) < Len(session.order)
           /\ session' = [session EXCEPT !.results = returned]
           /\ LET op == session.order[Len(returned) + 1]
              IN  CASE op = "calculateProjections" ->
                        /\ Enter(data, "neutral", st.startYear)
                        /\ data' = data
                    [] op = "runAllScenarios" ->
                        /\ Enter(Clone(data), Scenarios[1], st.startYear)
                        /\ data' = data
                    [] OTHER ->
                        /\ Enter(TestData(data, FirstTestAge), "neutral",
                                 st.startYear)
                        /\ data' = CallerAfterOverride(data, FirstTestAge)
    /\ all' = <<>>
    /\ testAge' = FirstTestAge
    /\ early' = {}
    /\ pc' = "loop"
    /\ UNCHANGED <<other, ui>>

NextSession ==
    \/ Call
    \/ YearStep
    \/ CurrentOp = "calculateProjections" /\ Return
    \/ CurrentOp = "runAllScenarios" /\ RunAllReturn
    \/ CurrentOp = "calculateViableEarlyRetirement" /\ SearchReturn

SpecSession == InitSession /\ [][NextSession]_vars

(***************************************************************************)
(* The cost-estimate button (src/App.tsx): handleEstimateCosts (lines      *)
(* 140-152) awaits estimateLocationCosts (lines 1124-1166), which asks an  *)
(* external model for a JSON text.  A JavaScript value is held as what the *)
(* handler looks at: whether it is truthy, and its own enumerable          *)
(* properties, which the object spread copies.                             *)
(***************************************************************************)
Null == [truthy |-> FALSE, props |-> <<>>]

\* the fields the prompt asks for
CostFields == {"monthlyDaycareCost", "monthlySchoolActivityCost",
               "currentHousingCost", "monthlyLivingCost"}

\* how a request can fail before there is a text: lines 1131 and 1151
Failures == {"API Key not found", "request rejected"}

\* response.text, for the answers the external model may give
Texts ==
    {"",
     "Here is the estimate: {\"currentHousingCost\": 2900}",
     "null",
     "0",
     "{}",
     "{\"monthlyDaycareCost\": 2800, \"monthlySchoolActivityCost\": 500, \"currentHousingCost\": 2900, \"monthlyLivingCost\": 6500}",
     "{\"currentHousingCost\": 2900}",
     "{\"costs\": {\"currentHousingCost\": 2900}}",
     "[{\"currentHousingCost\": 2900}]",
     "{\"error\": 429}"}

\* JSON.parse on these texts: throws is a SyntaxError
JsonParse(text) ==
    CASE text = "null" \/ text = "0" ->
            [throws |-> FALSE, value |-> Null]
      [] text = "{}" ->
            [throws |-> FALSE, value |-> [truthy |-> TRUE, props |-> <<>>]]
      [] text = "{\"monthlyDaycareCost\": 2800, \"monthlySchoolActivityCost\": 500, \"currentHousingCost\": 2900, \"monthlyLivingCost\": 6500}" ->
            [throws |-> FALSE,
             value |-> [truthy |-> TRUE,
                        props |-> [monthlyDaycareCost |-> 2800,
                                   monthlySchoolActivityCost |-> 500,
                                   currentHousingCost |-> 2900,
                                   monthlyLivingCost |-> 6500]]]
      [] text = "{\"currentHousingCost\": 2900}" ->
            [throws |-> FALSE,
             value |-> [truthy |-> TRUE, props |-> [currentHousingCost |-> 2900]]]
      [] text = "{\"costs\": {\"currentHousingCost\": 2900}}" ->
            [throws |-> FALSE,
             value |-> [truthy |-> TRUE,
                        props |-> [costs |-> [currentHousingCost |-> 2900]]]]
      [] text = "[{\"currentHousingCost\": 2900}]" ->
            [throws |-> FALSE,
             value |-> [truthy |-> TRUE,
                        props |-> [i \in {"0"} |-> [currentHousingCost |-> 2900]]]]
      [] text = "{\"error\": 429}" ->
            [throws |-> FALSE,
             value |-> [truthy |-> TRUE, props |-> [error |-> 429]]]
      [] OTHER ->
            [throws |-> TRUE, value |-> Null]

\* lines 1124-1166: every throw inside the try block ends in return null
estimateLocationCosts(answer) ==
    IF answer \in Failures THEN Null
    ELSE IF answer = "" THEN Null
    ELSE LET parsed == JsonParse(answer)
         IN  IF parsed.throws THEN Null ELSE parsed.value

\* { ...prev, ...estimated }
Spread(prev, props) ==
    [f \in DOMAIN prev \cup DOMAIN props |->
        IF f \in DOMAIN props THEN props[f] ELSE prev[f]]

FormProfiles ==
    {[BaseProfile EXCEPT
        !.canton = canton,
        !.currentChildren = cc, !.futureChildren = fc] :
        canton \in {"Zurich", "Zug", "Ticino", ""},
        cc \in 0..MaxCurrentChildren, fc \in 0..MaxFutureChildren}

\* formData is the variable data; other is formData as the user left it
InitEstimate ==
    /\ data \in FormProfiles
    /\ other = data
    /\ arg = data
    /\ scenario = "neutral"
    /\ st = InitState(arg, FirstYear)
    /\ points = <<>>
    /\ all = <<>>
    /\ testAge = FirstTestAge
    /\ early = {}
    /\ pc = "idle"
    /\ session = NoSession
    /\ ui = UiAtRest

\* lines 140-147: the click, up to the await; the answer is what the request
\* will end with
HandleEstimateCosts ==
    /\ pc = "idle"
    /\ IF data.canton = ""
       THEN /\ pc' = "done"
            /\ UNCHANGED ui
       ELSE /\ pc' = "awaiting"
            /\ \E answer \in Failures \cup Texts :
                    ui' = [loadingEstimate |-> TRUE, answer |-> answer]
    /\ UNCHANGED <<data, other, arg, scenario, st, points, all, testAge, early,
                   session>>

\* handleInputChange (lines 132-138) while the request is pending
HandleInputChange ==
    /\ pc = "awaiting"
    /\ \E rent \in {1800, 2000} :
            data' = [data EXCEPT !.currentHousingCost = rent]
    /\ data' # data
    /\ other' = [other EXCEPT !.currentHousingCost = data'.currentHousingCost]
    /\ UNCHANGED <<arg, scenario, st, points, all, testAge, early, pc,
                   session, ui>>

\* lines 148-151: the await resumes
EstimateSettles ==
    /\ pc = "awaiting"
    /\ LET estimated == estimateLocationCosts(ui.answer)
       IN  data' = IF estimated.truthy THEN Spread(data, estimated.props)
                   ELSE data
    /\ ui' = [ui EXCEPT !.loadingEstimate = FALSE]
    /\ pc' = "done"
    /\ UNCHANGED <<other, arg, scenario, st, points, all, testAge, early,
                   session>>

NextEstimate == HandleEstimateCosts \/ HandleInputChange \/ EstimateSettles

SpecEstimate == InitEstimate /\ [][NextEstimate]_vars

(***************************************************************************)
(* Properties of one run (checked under Spec)                              *)
(***************************************************************************)
\* the snapshot of index i belongs to a year processed as retired
RetiredPoint(i) == points[i].age >= arg.retirementAge

HasNote(i, note) == \E k \in DOMAIN points[i].notes : points[i].notes[k] = note

\* the index of the first retired snapshot (only used when there is one)
FirstRetired == CHOOSE i \in DOMAIN points :
                    RetiredPoint(i) /\ \A j \in 1..(i - 1) : ~RetiredPoint(j)

\* C1: every snapshot whose age is >= retirementAge reports pillar2Wealth
\* exactly 0, whatever capital was accumulated before.
C1_Pillar2ZeroOnceRetired ==
    \A i \in DOMAIN points : RetiredPoint(i) => points[i].pillar2Wealth = 0

\* a run that reached age 90 retired, after working years that left capital
C1_Witness ==
    \E i \in DOMAIN points : \E j \in DOMAIN points :
        /\ i + 1 < j
        /\ ~RetiredPoint(i) /\ points[i].pillar2Wealth > 0
        /\ RetiredPoint(i + 1) /\ points[i + 1].pillar2Wealth = 0
        /\ points[j].age = DEFAULT_MAX_AGE

\* the year the loop is about to process is a retired one
RetiredNow == st.age >= arg.retirementAge

\* the first simulated age that is >= retirementAge
FirstRetiredAge == Max(arg.currentAge, arg.retirementAge)

\* C2: the retirement snapshot is taken exactly once, in the first simulated
\* year whose age is >= retirementAge; once a year is processed as retired every
\* later year is, and the snapshot values are never recomputed.
C2_SnapshotOnceAndTerminal ==
    /\ [](st.retirementSnapshotTaken <=> st.age > FirstRetiredAge)
    /\ [][/\ (~st.retirementSnapshotTaken /\ st'.retirementSnapshotTaken)
                => st.age = FirstRetiredAge
          /\ RetiredNow => (st'.age >= arg'.retirementAge)
          /\ st.retirementSnapshotTaken =>
                /\ st'.retirementSnapshotTaken
                /\ st'.lppAnnualPensionSnapshot = st.lppAnnualPensionSnapshot
                /\ st'.pillar3AnnualDrawdownSnapshot
                        = st.pillar3AnnualDrawdownSnapshot
                /\ st'.ahvAnnualPensionSnapshot = st.ahvAnnualPensionSnapshot
         ]_vars

\* three retired years after a working one, with balances that have moved on
\* since the snapshot was taken
C2_Witness ==
    /\ Len(points) >= 4
    /\ ~RetiredPoint(1)
    /\ RetiredPoint(Len(points) - 2)
    /\ st.retirementSnapshotTaken
    /\ st.lppAnnualPensionSnapshot > 0
    /\ st.pillar3AnnualDrawdownSnapshot > 0
    /\ st.pillar3Wealth
         # st.pillar3AnnualDrawdownSnapshot
             * Max(1, DEFAULT_MAX_AGE - arg.retirementAge)

\* the pillar-2 capital at the end of the last working year (the input balances
\* when the household is retired from the first year on)
CapitalAtRetirement ==
    IF FirstRetired = 1
    THEN arg.pillar2Balance1 + arg.pillar2Balance2
    ELSE points[FirstRetired - 1].pillar2Wealth

\* C3: pensionLPP has the same value in every retirement-year snapshot, the
\* pillar-2 capital at the end of the last working year times 5.8%.
C3_LppAnnuityFixed ==
    \A i \in DOMAIN points :
        RetiredPoint(i) =>
            /\ points[i].pensionLPP = MulDiv(CapitalAtRetirement, 58, 1000)
            /\ points[i].pensionLPP = points[FirstRetired].pensionLPP

\* the annuity at age R + 5, R reached after working years
C3_Witness ==
    /\ \E i \in DOMAIN points : RetiredPoint(i)
    /\ FirstRetired > 1
    /\ Len(points) >= FirstRetired + 5
    /\ points[FirstRetired + 5].age = arg.retirementAge + 5
    /\ points[FirstRetired + 5].pensionLPP > 0

\* two retirement-year snapshots that follow each other
ConsecutiveRetired(i) ==
    i \in DOMAIN points /\ i + 1 \in DOMAIN points /\ RetiredPoint(i)

\* C4 as claimed: pensionAHV strictly increases from each retirement year to
\* the next, for every profile and every scenario.
C4_AhvStrictlyIncreases ==
    \A i \in DOMAIN points :
        ConsecutiveRetired(i) => points[i + 1].pensionAHV > points[i].pensionAHV

\* C4 amended: pensionAHV moves with the sign of the base inflation
\* (expectedSalaryIncrease plus the scenario's inflation delta): it strictly
\* increases when that is positive, stays equal when it is 0 and strictly
\* decreases when it is negative.
C4_AhvFollowsBaseInflation ==
    \A i \in DOMAIN points :
        ConsecutiveRetired(i) =>
            LET b == arg.expectedSalaryIncrease + Modifiers(scenario).inflationModPct
                now == points[i].pensionAHV
                next == points[i + 1].pensionAHV
            IN  /\ b > 0 => next > now
                /\ b = 0 => next = now
                /\ b < 0 => next < now

C4_Witness ==
    \E i \in DOMAIN points :
        /\ ConsecutiveRetired(i)
        /\ arg.expectedSalaryIncrease + Modifiers(scenario).inflationModPct > 0
        /\ points[i + 1].pensionAHV > points[i].pensionAHV
        /\ ~RetiredPoint(1)

\* 2 + activeChildren > currentRooms + 0.5, on the snapshot of index i
Outgrown(i) == 2 * (2 + points[i].activeChildren) > arg.currentRooms + 1

RentOf(i) == points[i].housingExpenses \div 12
RentBefore(i) == IF i = 1 THEN arg.currentHousingCost ELSE RentOf(i - 1)

\* the yearly rent increase of this run, in tenths of a percent
RentIncreasePct == arg.housingCostIncrease + Modifiers(scenario).inflationModPct

C10_BucketsNonNegative ==
    /\ \A i \in DOMAIN points :
            /\ points[i].cashSavings >= 0
            /\ points[i].investedAssets >= 0
            /\ points[i].pillar2Wealth >= 0
            /\ points[i].pillar3Wealth >= 0
    /\ st.cashBuffer >= 0 /\ st.investedWealth >= 0
    /\ st.pillar2Wealth >= 0 /\ st.pillar3Wealth >= 0

\* a year whose deficit exceeded the cash and the invested assets held before it
C10_Witness ==
    \E i \in DOMAIN points :
        /\ i > 1
        /\ points[i].yearlySavings < 0
        /\ points[i - 1].investedAssets > 0
        /\ -points[i].yearlySavings
              > points[i - 1].cashSavings + points[i - 1].investedAssets
        /\ points[i].cashSavings = 0
        /\ points[i].investedAssets = 0

\* C11: when total wealth is non-positive (<= 0) in some simulated year,
\* savingsDepletedAge is the first such age and that year's snapshot carries the
\* funds-depleted note; savingsDepletedAge is null only when total wealth stays
\* positive in every year.
C11_DepletionRecorded ==
    LET nonPositive == {i \in DOMAIN points : points[i].totalWealth <= 0}
    IN  /\ nonPositive # {} =>
            LET first == CHOOSE i \in nonPositive : \A j \in nonPositive : i <= j
            IN  /\ st.savingsDepletedAge = {points[first].age}
                /\ HasNote(first, DepletedNote)
        /\ nonPositive = {} => st.savingsDepletedAge = {}
        /\ pc = "done" => all[1].savingsDepletedAge = st.savingsDepletedAge

\* C12: every run terminates, with exactly one snapshot per age from currentAge
\* to 90 (91 - currentAge snapshots, at most 91, ages increasing by 1); the loop
\* is left only after the iteration of age 90, also after a deficit year or a
\* year that ended without wealth (checked under SpecLive).
C12_RunsToHorizon ==
    /\ <>(pc = "done")
    /\ [](/\ Len(points) <= 91
          /\ \A i \in DOMAIN points : points[i].age = arg.currentAge + i - 1
          /\ pc = "done" =>
                /\ Len(all) = 1
                /\ all[1].data = points
                /\ Len(points) = 91 - arg.currentAge
                /\ points[Len(points)].age = DEFAULT_MAX_AGE)
    /\ [][pc' = "done" => st.age = DEFAULT_MAX_AGE + 1]_vars

\* a run of 61 snapshots that returned, with a retired deficit year that left
\* neither cash nor invested assets long before the horizon
C12_Witness ==
    /\ pc = "done"
    /\ Len(points) = 61
    /\ \E i \in DOMAIN points :
          /\ i + 10 < Len(points)
          /\ RetiredPoint(i)
          /\ points[i].isDeficit
          /\ points[i].cashSavings + points[i].investedAssets = 0

\* the age in projection year k (0 is the first) of the slot that starts at a0
SlotAge(a0, k) == a0 + k

\* what the slots of ages ages cost in a year, before the expense multiplier:
\* nothing while unborn, 12 x daycare from age 0
RECURSIVE ExpectedChildrenCost(_, _)
ExpectedChildrenCost(d, ages) ==
    IF ages = <<>> THEN 0
    ELSE LET a == Head(ages)
             cost == IF a < 0 THEN 0
                     ELSE IF a <= 4 THEN 12 * d.monthlyDaycareCost
                     ELSE IF a <= 18 THEN 12 * d.monthlySchoolActivityCost
                     ELSE IF a <= 24 THEN d.universitySupport
                     ELSE 0
         IN  cost + ExpectedChildrenCost(d, Tail(ages))

\* C15: every child slot, unborn ones included, ages by exactly 1 per simulated
\* year: a slot that starts at age a0 has age a0 + k in year k; it costs nothing
\* and is not counted active while its age is negative, and first costs
\* 12 x monthlyDaycareCost (times the expense multiplier) in the year it reaches
\* age 0.
C15_SlotsAgeOnePerYear ==
    LET start == computeChildrenSchedule(arg)
        agesIn(k) == [c \in DOMAIN start |-> SlotAge(start[c], k)]
    IN  /\ st.childrenAges = agesIn(Len(points))
        /\ \A i \in DOMAIN points :
              LET ages == agesIn(i - 1)
              IN  /\ points[i].activeChildren =
                        Cardinality({c \in DOMAIN ages :
                                        ages[c] >= 0 /\ ages[c] < 25})
                  /\ points[i].childrenExpenses =
                        MulDiv(ExpectedChildrenCost(arg, ages),
                               Modifiers(scenario).expenseMultiplier, 1000)

\* one child that starts at age -1 with daycare at 2500 a month: nothing in
\* year 0, 30000 in year 1
C15_Witness ==
    /\ computeChildrenSchedule(arg) = <<-1>>
    /\ arg.monthlyDaycareCost = 2500
    /\ scenario = "neutral"
    /\ Len(points) >= 2
    /\ points[1].childrenExpenses = 0 /\ points[1].activeChildren = 0
    /\ points[2].childrenExpenses = 30000 /\ points[2].activeChildren = 1

\* the first future child of a household without children is in the snapshot of
\* index i
FirstChildAppears(i) == i \in DOMAIN points /\ points[i].activeChildren >= 1

\* C16: firstChildBirthYearOffset counts the years until the first future child
\* is born, 0 meaning next year: with offset 0 the child is unborn in projection
\* year 0 (no cost, not active) and first appears in year 1; with offset 2 it
\* first appears in year 2.
C16_OffsetZeroIsNextYear ==
    (arg.currentChildren = 0 /\ arg.futureChildren >= 1) =>
        /\ (arg.firstChildBirthYearOffset = 0 /\ Len(points) >= 1) =>
                /\ ~FirstChildAppears(1)
                /\ points[1].childrenExpenses = 0
                /\ Len(points) >= 2 => FirstChildAppears(2)
        /\ (arg.firstChildBirthYearOffset = 2 /\ Len(points) >= 3) =>
                /\ ~FirstChildAppears(1) /\ ~FirstChildAppears(2)
                /\ FirstChildAppears(3)

\* the buckets at the end of the year before the snapshot of index i (the split
\* of currentSavings before the first year)
CashBeforeYear(i) ==
    IF i = 1 THEN MulDiv(arg.currentSavings, 3, 10)
    ELSE points[i - 1].cashSavings

InvestedBeforeYear(i) ==
    IF i = 1 THEN MulDiv(arg.currentSavings, 7, 10)
    ELSE points[i - 1].investedAssets

\* the yearly return of the invested bucket in this run, in tenths of a percent
ReturnOfRun ==
    Max(0, arg.investmentReturn + Modifiers(scenario).returnModPct)

\* the part of the deficit of the snapshot of index i that the cash cannot pay
Uncovered(i) == -points[i].yearlySavings - CashBeforeYear(i)

\* C19: in a year with negative net cash flow, working or retired, the deficit
\* is taken from the cash bucket first; the invested bucket is reduced, before
\* its yearly growth, only by the part of the deficit that exceeds the cash, and
\* then the cash ends at exactly 0; when the cash covers the deficit the
\* invested bucket changes by its return alone.
C19_CashFirstThenInvested ==
    \A i \in DOMAIN points :
        points[i].yearlySavings < 0 =>
            IF Uncovered(i) <= 0
            THEN /\ points[i].cashSavings
                        = CashBeforeYear(i) + points[i].yearlySavings
                 /\ points[i].investedAssets
                        = Grow(InvestedBeforeYear(i), ReturnOfRun)
            ELSE /\ points[i].cashSavings = 0
                 /\ points[i].investedAssets
                        = Grow(Max(0, InvestedBeforeYear(i) - Uncovered(i)),
                               ReturnOfRun)

\* a working year whose deficit used up the cash and a part of the invested
\* assets, and a retired year whose deficit the cash covered
C19_Witness ==
    \E i \in DOMAIN points : \E j \in DOMAIN points :
        /\ ~RetiredPoint(i)
        /\ points[i].yearlySavings < 0
        /\ CashBeforeYear(i) > 0
        /\ Uncovered(i) > 0
        /\ InvestedBeforeYear(i) > Uncovered(i)
        /\ points[i].cashSavings = 0
        /\ RetiredPoint(j)
        /\ points[j].yearlySavings < 0
        /\ Uncovered(j) < 0
        /\ InvestedBeforeYear(j) > 0
        /\ points[j].cashSavings > 0

\* the pension capital at the end of the year before the snapshot of index i
\* (the input balances before the first year)
Pillar2BeforeYear(i) ==
    IF i = 1 THEN arg.pillar2Balance1 + arg.pillar2Balance2
    ELSE points[i - 1].pillar2Wealth

Pillar3BeforeYear(i) ==
    IF i = 1 THEN arg.pillar3Balance1 + arg.pillar3Balance2
    ELSE points[i - 1].pillar3Wealth

\* the deficit of the snapshot of index i exceeds cash plus invested assets
BeyondFreeAssets(i) == Uncovered(i) > InvestedBeforeYear(i)

\* the snapshot of index i shows the buckets of a year that began with no cash,
\* no invested assets and no debt
StartsFromNothing(i) ==
    LET flow == points[i].yearlySavings
    IN  IF ~RetiredPoint(i) /\ flow > 0
        THEN /\ points[i].cashSavings = MulDiv(flow, 3, 10)
             /\ points[i].investedAssets
                    = Grow(MulDiv(flow, 7, 10), ReturnOfRun)
        ELSE /\ points[i].cashSavings = Max(0, flow)
             /\ points[i].investedAssets = 0

\* C20: in every working year pillar2Wealth and pillar3Wealth are not lower
\* than the year before, also when the deficit exceeds cash plus invested
\* assets; in such a year cash and invested both end at 0, total wealth is the
\* pension capital alone, and the following year starts from empty buckets
\* with no debt to repay.
C20_PensionNeverAbsorbsDeficit ==
    \A i \in DOMAIN points :
        ~RetiredPoint(i) =>
            /\ points[i].pillar2Wealth >= Pillar2BeforeYear(i)
            /\ points[i].pillar3Wealth >= Pillar3BeforeYear(i)
            /\ BeyondFreeAssets(i) =>
                    /\ points[i].cashSavings = 0
                    /\ points[i].investedAssets = 0
                    /\ points[i].totalWealth
                            = points[i].pillar2Wealth + points[i].pillar3Wealth
                    /\ (i + 1) \in DOMAIN points => StartsFromNothing(i + 1)

\* a working year whose deficit exceeded the free assets, with both pension
\* pillars grown, followed by a working year with a surplus
C20_Witness ==
    \E i \in DOMAIN points :
        /\ ~RetiredPoint(i)
        /\ BeyondFreeAssets(i)
        /\ points[i].pillar2Wealth > Pillar2BeforeYear(i)
        /\ points[i].pillar3Wealth > Pillar3BeforeYear(i)
        /\ (i + 1) \in DOMAIN points
        /\ ~RetiredPoint(i + 1)
        /\ points[i + 1].yearlySavings > 0
        /\ points[i + 1].cashSavings > 0

\* the amount credited to pillar 3 in the working year of the snapshot of index
\* i: what the balance holds beyond the growth of the balance of the year before
CreditedP3(i) ==
    points[i].pillar3Wealth - Grow(Pillar3BeforeYear(i), ReturnOfRun)

PlannedP3OfRun ==
    arg.pillar3AnnualContribution1 + arg.pillar3AnnualContribution2

\* C21: in every working year the amount credited to pillar 3 is the smaller of
\* the planned contribution of both earners and max(0, net income): it is never
\* above the plan, never above the net income and never negative; the net cash
\* flow of the year is net income minus that amount minus total expenses.
C21_ContributionIsMinOfPlanAndIncome ==
    \A i \in DOMAIN points :
        ~RetiredPoint(i) =>
            /\ CreditedP3(i)
                    = Min(PlannedP3OfRun, Max(0, points[i].totalIncome))
            /\ CreditedP3(i) <= PlannedP3OfRun
            /\ CreditedP3(i) <= points[i].totalIncome
            /\ CreditedP3(i) >= 0
            /\ points[i].yearlySavings
                    = points[i].totalIncome - CreditedP3(i)
                        - points[i].totalExpenses

\* a working year whose net income is positive and below the plan: all of it is
\* credited and the expenses of the year are the whole deficit
C21_Witness ==
    \E i \in DOMAIN points :
        /\ ~RetiredPoint(i)
        /\ points[i].totalIncome > 0
        /\ points[i].totalIncome < PlannedP3OfRun
        /\ CreditedP3(i) = points[i].totalIncome
        /\ points[i].yearlySavings = -points[i].totalExpenses

\* the drawdown amount frozen in the first retired year: the pillar-3 balance
\* at the end of the last working year over the years in retirement
FrozenDrawdown ==
    Pillar3BeforeYear(FirstRetired)
        \div Max(1, DEFAULT_MAX_AGE - arg.retirementAge)

\* C22: in every retirement year pension3a is the smaller of the pillar-3
\* balance left by the year before and the frozen drawdown amount, so it never
\* exceeds that balance; the balance then falls by exactly the amount paid and
\* what remains grows by 30% of the effective investment return.
C22_PayoutIsMinOfBalanceAndDrawdown ==
    \A i \in DOMAIN points :
        RetiredPoint(i) =>
            /\ points[i].pension3a
                    = Min(Pillar3BeforeYear(i), FrozenDrawdown)
            /\ points[i].pension3a <= Pillar3BeforeYear(i)
            /\ points[i].pillar3Wealth
                    = MulDiv(Pillar3BeforeYear(i) - points[i].pension3a,
                             10000 + 3 * ReturnOfRun, 10000)

\* a retirement year that paid the frozen amount and left a balance that grew,
\* and a later one whose balance was below the frozen amount and was paid out
\* whole
C22_Witness ==
    \E i \in DOMAIN points : \E j \in DOMAIN points :
        /\ RetiredPoint(i)
        /\ i < j
        /\ ReturnOfRun > 0
        /\ points[i].pension3a = FrozenDrawdown
        /\ Pillar3BeforeYear(i) > FrozenDrawdown
        /\ points[i].pillar3Wealth
                > Pillar3BeforeYear(i) - points[i].pension3a
        /\ Pillar3BeforeYear(j) > 0
        /\ Pillar3BeforeYear(j) < FrozenDrawdown
        /\ points[j].pension3a = Pillar3BeforeYear(j)
        /\ points[j].pillar3Wealth = 0

\* the divisor of the private-pension drawdown (line 171)
YearsInRetirement == Max(1, DEFAULT_MAX_AGE - arg.retirementAge)

\* C23: the years-in-retirement divisor of the drawdown is max(1, 90 -
\* retirementAge), never 0 or negative: the payout of a retirement year is never
\* negative, the first payout is the balance at retirement over that divisor,
\* and with retirementAge >= 90 it is the whole pillar-3 balance.
C23_DivisorAtLeastOne ==
    \A i \in DOMAIN points :
        RetiredPoint(i) =>
            /\ YearsInRetirement >= 1
            /\ points[i].pension3a >= 0
            /\ i = FirstRetired =>
                    points[i].pension3a
                        = Pillar3BeforeYear(i) \div YearsInRetirement
            /\ arg.retirementAge >= DEFAULT_MAX_AGE =>
                    /\ points[i].pension3a = Pillar3BeforeYear(i)
                    /\ points[i].pillar3Wealth = 0

\* a household that retires at 90: the one retirement year pays out the whole
\* balance the working years left
C23_Witness ==
    \E i \in DOMAIN points :
        /\ arg.retirementAge = DEFAULT_MAX_AGE
        /\ arg.currentAge < arg.retirementAge
        /\ RetiredPoint(i)
        /\ points[i].pension3a = points[i - 1].pillar3Wealth
        /\ points[i].pension3a > 0
        /\ points[i].pillar3Wealth = 0

\* the career boost of the table, in tenths of a percent, by age band and stage
AgeBand(age) ==
    IF age < 35 THEN "under35"
    ELSE IF age < 45 THEN "from35to44"
    ELSE IF age < 55 THEN "from45to54"
    ELSE "from55"

BoostTable ==
    [under35 |-> [junior |-> 35, mid |-> 25, senior |-> 15, executive |-> 15],
     from35to44 |-> [junior |-> 25, mid |-> 20, senior |-> 15, executive |-> 20],
     from45to54 |-> [junior |-> 10, mid |-> 10, senior |-> 10, executive |-> 10],
     from55 |-> [junior |-> 0, mid |-> 0, senior |-> 0, executive |-> 0]]

\* the gross salary the table gives at the start of the year of the given age,
\* compounded one working year at a time from the input salary
RECURSIVE SalaryByTable(_, _, _)
SalaryByTable(salary, stage, age) ==
    IF age <= arg.currentAge THEN salary
    ELSE Grow(SalaryByTable(salary, stage, age - 1),
              arg.expectedSalaryIncrease + Modifiers(scenario).inflationModPct
                + BoostTable[AgeBand(age - 1)][stage]
                + Modifiers(scenario).salaryGrowthModPct)

\* the age up to which the run in progress has compounded the salaries
WorkedUpTo == Min(st.age, Max(arg.currentAge, arg.retirementAge))

\* C24: getSalaryGrowthRate returns the baseline plus the career boost of the
\* table for every age and stage, and each earner's salary is compounded, one
\* working year at a time, with the rate of its own stage plus the scenario's
\* salary-growth delta.
C24_SalaryGrowthFollowsTable ==
    /\ \A age \in 18..DEFAULT_MAX_AGE : \A stage \in CareerStages :
            getSalaryGrowthRate(age, stage, arg.expectedSalaryIncrease)
                = arg.expectedSalaryIncrease + BoostTable[AgeBand(age)][stage]
    /\ st.grossSalary1
            = SalaryByTable(arg.annualGrossSalary1, arg.careerStage1, WorkedUpTo)
    /\ st.grossSalary2
            = SalaryByTable(arg.annualGrossSalary2, arg.careerStage2, WorkedUpTo)

\* an executive and a junior after three working years from 33 to 36, whose
\* salaries grew by different factors
C24_Witness ==
    /\ arg.currentAge = 33
    /\ arg.careerStage1 = "executive"
    /\ arg.careerStage2 = "junior"
    /\ st.age = 36
    /\ st.grossSalary1 > arg.annualGrossSalary1
    /\ MulDiv(st.grossSalary2, 1000, arg.annualGrossSalary2)
            > MulDiv(st.grossSalary1, 1000, arg.annualGrossSalary1)

\* C25: a working-year snapshot carries the salaries of its own year, which are
\* advanced only afterwards: salary1 + salary2 + bonus equals the snapshot's
\* totalIncome; a retirement-year snapshot has salary1, salary2 and bonus 0 and
\* a totalIncome of 0.85 times the pension sum.
C25_SnapshotSalariesOfTheYear ==
    \A i \in DOMAIN points :
        IF RetiredPoint(i)
        THEN /\ points[i].salary1 = 0
             /\ points[i].salary2 = 0
             /\ points[i].bonus = 0
             /\ points[i].totalIncome = MulDiv(points[i].pension, 85, 100)
        ELSE points[i].salary1 + points[i].salary2 + points[i].bonus
                = points[i].totalIncome

\* the ages of the child slots in the year of the snapshot of index i
SlotAgesInYear(i) ==
    LET start == computeChildrenSchedule(arg)
    IN  [c \in DOMAIN start |-> start[c] + (i - 1)]

\* the yearly cost of one slot by age band, before the expense multiplier
BandCost(age) ==
    CASE age < 0 -> 0
      [] age >= 0 /\ age < 5 -> 12 * arg.monthlyDaycareCost
      [] age >= 5 /\ age < 19 -> 12 * arg.monthlySchoolActivityCost
      [] age >= 19 /\ age < 25 -> arg.universitySupport
      [] age >= 25 -> 0

RECURSIVE SumOfBands(_)
SumOfBands(ages) ==
    IF ages = <<>> THEN 0
    ELSE BandCost(Head(ages)) + SumOfBands(Tail(ages))

C27_NeverDepletedAlwaysViable ==
    /\ st.savingsDepletedAge = {}
    /\ \A i \in DOMAIN points :
            /\ points[i].totalWealth >= 0
            /\ ~HasNote(i, DepletedNote)
    /\ pc = "done" =>
            /\ all[1].isViable
            /\ all[1].savingsDepletedAge = {}
            /\ all[1].finalWealth >= 0

\* a returned run whose last year had a deficit of more than 100000 and ended
\* with no wealth at all
C27_Witness ==
    /\ pc = "done"
    /\ all[1].finalWealth = 0
    /\ all[1].isViable
    /\ all[1].savingsDepletedAge = {}
    /\ points[Len(points)].yearlySavings < -100000
    /\ points[Len(points)].isDeficit

\* C29: for currentAge <= retirementAge < 90 and a positive pillar-3 balance at
\* retirement, pension3a is strictly positive in every retirement-year snapshot
\* from retirementAge through age 90, whatever the effective return: the
\* drawdown over 90 - retirementAge years lasts for all 91 - retirementAge
\* simulated retirement years.
C29_PayoutPositiveThroughHorizon ==
    (arg.currentAge <= arg.retirementAge
        /\ arg.retirementAge < DEFAULT_MAX_AGE) =>
        \A i \in DOMAIN points :
            (RetiredPoint(i) /\ Pillar3BeforeYear(FirstRetired) > 0) =>
                points[i].pension3a > 0

\* C30: in projection year 0 every expense line is at its input level: without
\* a relocation in that year housingExpenses is 12 x currentHousingCost, and in
\* the neutral scenario livingExpenses is 12 x monthlyLivingCost and
\* travelExpenses is yearlyTravelBudget; rent inflation starts in year 1.
C30_YearZeroAtInputLevel ==
    Len(points) >= 1 =>
        /\ ~HasNote(1, MoveNote) =>
                points[1].housingExpenses = 12 * arg.currentHousingCost
        /\ scenario = "neutral" =>
                /\ points[1].livingExpenses = 12 * arg.monthlyLivingCost
                /\ points[1].travelExpenses = arg.yearlyTravelBudget

(***************************************************************************)
(* Properties of several runs                                              *)
(***************************************************************************)
\* C7: the final wealth of the pessimistic run never exceeds the final wealth
\* of the optimistic run on the same profile (checked under SpecScenarios).
C7_PessimisticNotAboveOptimistic ==
    (pc = "done" /\ Len(all) = 3)
        => all[1].finalWealth <= all[3].finalWealth

\* C8: of two neutral runs on profiles that differ only in investmentReturn,
\* the one with the higher investmentReturn ends with a final wealth that is
\* not lower (checked under SpecPair; all[1] is the run with the lower one).
C8_FinalWealthMonotoneInReturn ==
    (pc = "done" /\ Len(all) = 2)
        => /\ other = [data EXCEPT !.investmentReturn = other.investmentReturn]
           /\ other.investmentReturn > data.investmentReturn
           /\ all[2].finalWealth >= all[1].finalWealth

\* both returns positive, and the higher one ends strictly richer
C8_Witness ==
    /\ pc = "done" /\ Len(all) = 2
    /\ data.investmentReturn > 0
    /\ all[2].finalWealth > all[1].finalWealth

\* C9: the search tries the candidates 45, 46, ... in ascending order on
\* neutral runs with retirementAge overridden; it returns the lowest candidate
\* whose run is viable, every lower one having failed, and null when all
\* candidates up to 65 failed (checked under SpecSearch; all[i] is the result
\* of the run of candidate 44 + i).
C9_SearchReturnsLowestViableOrNull ==
    /\ pc = "loop" =>
        /\ Len(all) = testAge - 45
        /\ testAge \in 45..65
        /\ arg = [data EXCEPT !.retirementAge = testAge]
        /\ scenario = "neutral"
        /\ early = {}
        /\ \A i \in DOMAIN all : all[i].finalWealth <= 100000
    /\ pc = "done" =>
        /\ \A i \in 1..(Len(all) - 1) : all[i].finalWealth <= 100000
        /\ \A a \in early :
              /\ a = 44 + Len(all)
              /\ a \in 45..65
              /\ arg.retirementAge = a
              /\ all[Len(all)].finalWealth > 100000
        /\ early = {} =>
              /\ Len(all) = 21
              /\ all[21].finalWealth <= 100000
        /\ Cardinality(early) <= 1

\* the search returned an age above 45, after lower candidates had failed
C9_Witness ==
    /\ pc = "done"
    /\ \E a \in early : a > 45 /\ all[1].finalWealth <= 100000

\* the calls of the session that have returned
Calls == IF pc = "done" THEN Append(session.results, LastCall) ELSE session.results

WithoutYear(pt) == [f \in DOMAIN pt \ {"year"} |-> pt[f]]

InvestedBefore(i) ==
    IF i = 1 THEN MulDiv(arg.currentSavings, 7, 10)
    ELSE points[i - 1].investedAssets

\* C17: in a neutral run, in every working year whose net cash flow
\* (yearlySavings) is positive, investedAssets at the end of the year is not
\* lower than at the end of the year before; with positive cash flow throughout
\* the working phase the invested wealth never decreases before retirement
\* (checked under SpecPair, whose runs are neutral with investmentReturn from
\* -1.0% to 7.0%).
C17_InvestedGrowsOnSurplus ==
    scenario = "neutral" =>
        \A i \in DOMAIN points :
            (~RetiredPoint(i) /\ points[i].yearlySavings > 0)
                => points[i].investedAssets >= InvestedBefore(i)

\* a working phase of ten years with positive cash flow throughout, at a
\* negative investmentReturn, and an invested wealth that rose every year
C17_Witness ==
    /\ scenario = "neutral"
    /\ arg.investmentReturn < 0
    /\ Len(points) >= 10
    /\ \A i \in 1..10 :
          /\ ~RetiredPoint(i)
          /\ points[i].yearlySavings > 0
          /\ points[i].investedAssets > InvestedBefore(i)

\* an estimate of the shape the prompt asks for: an object with some of the four
\* cost fields and nothing else, each a non-negative number
WellFormedEstimate(v) ==
    /\ v.truthy
    /\ DOMAIN v.props # {}
    /\ DOMAIN v.props \subseteq CostFields
    /\ \A f \in DOMAIN v.props : v.props[f] \in Nat

\* C18: a failed, missing or malformed answer of the estimator is no override:
\* once handleEstimateCosts has completed, the form profile is as the user left
\* it unless a well-formed estimate was returned, and loadingEstimate is false
\* again in every outcome (checked under SpecEstimate).
C18_MalformedIsNoOverride ==
    pc = "done" =>
        /\ ~ui.loadingEstimate
        /\ data # other => WellFormedEstimate(estimateLocationCosts(ui.answer))

\* C28: the early-retirement search keeps retirementAge >= currentAge in every
\* profile it hands to calculateProjections, and never returns an age below the
\* household's currentAge (checked under SpecSearch; other is the profile the
\* search was called with).
C28_SearchNeverBelowCurrentAge ==
    /\ arg.retirementAge >= arg.currentAge
    /\ \A a \in early : a >= other.currentAge

=============================================================================
